---- MODULE Spec2Model ----
(***************************************************************************)
(* A model of deepint-external-source-mongo:                               *)
(*   - the update propagation pipeline of DataSource (src/src/source.ts):  *)
(*     pushInstances, noticeUpdate and the worker runUpdateService;        *)
(*   - the query sanitizer and the filter compiler                         *)
(*     (src/src/utils/deepint-sources.ts).                                 *)
(***************************************************************************)
EXTENDS Integers, Sequences, FiniteSets, TLC

VARIABLES
    closed,           \* DataSource.closed
    updateQueue,      \* DataSource.updateQueue
    updateSem,        \* permits of DataSource.updateSem
    requiredUpdate,   \* DataSource.requiredUpdate
    pc,               \* position of runUpdateService
    instancesToPush,  \* the worker's local batch
    inflight,         \* body of the request the worker has posted
    reqs,             \* the POST /update/push requests: where each handler
                      \* stands (at) and how many instances it has yet to
                      \* queue (n)
    notices,          \* number of POST /update/notice requests served
    appended,         \* history: every instance pushed on updateQueue, in order
    tried,            \* history: the POSTs made for the batch in hand, each
                      \* with its body and its outcome
    delivered,        \* history: the bodies answered with status 200, in order
    raw,              \* sanitizeQueryTree: the value passed as tree
    startDepth,       \* sanitizeQueryTree: the value passed as depth
    sanitized,        \* what sanitizeQueryTree(raw, startDepth) gave
    resanitized,      \* what sanitizeQueryTree(sanitized, startDepth) gave
    step,             \* how far the call under study has got
    fields,           \* DataSource.fields, the schema
    leafA,            \* the leaf A of the query, as the request gave it
    leafB,            \* the leaf B of the query, as the request gave it
    cond1,            \* what toMongoFilter(fields, ...) gave
    cond2,            \* what toMongoFilter(fields, ...) gave for the other query
    collection,       \* getNominalValues: how many rows of the collection
                      \* are equal to each document
    featureArg,       \* getNominalValues: the value passed as feature
    nominalValues     \* what getNominalValues gave

workerVars == <<closed, updateQueue, updateSem, requiredUpdate, pc,
                instancesToPush, inflight, reqs, notices, appended, tried,
                delivered>>

compileVars == <<fields, leafA, leafB, cond1, cond2>>

lookupVars == <<collection, featureArg, nominalValues>>

pureVars == <<raw, startDepth, sanitized, resanitized, step, compileVars,
              lookupVars>>

vars == <<workerVars, pureVars>>

----------------------------------------------------------------------------
(* Bounds of the model and program constants. *)

DEEPINT_UPDATE_INSTANCES_LIMIT == 100

MaxPushes == 2
MaxNotices == 1
MaxFailures == 2

\* Sizes of the pushed arrays: one instance, and one more than a batch holds.
PushSizes == {1, DEEPINT_UPDATE_INSTANCES_LIMIT + 1}

----------------------------------------------------------------------------
(* Sequence helpers. *)

IsPrefix(s, t) == Len(s) <= Len(t) /\ SubSeq(t, 1, Len(s)) = s

RECURSIVE Concat(_)
Concat(ss) == IF ss = <<>> THEN <<>> ELSE Head(ss) \o Concat(Tail(ss))

----------------------------------------------------------------------------
(* The update queue and the worker: src/src/source.ts. *)

\* The instances of push request r, which carries n of them.
Instances(r, n) == [j \in 1..n |-> <<r, j>>]

\* instances.forEach(i => { this.updateQueue.push(i) }): every instance, in the
\* order of the array, goes to the tail of the queue.
EnqueueAll(queue, instances) == queue \o instances

\* while (instancesToPush.length < LIMIT && this.updateQueue.length > 0)
\*     instancesToPush.push(this.updateQueue.shift());
RECURSIVE CarveBatchOffByOne(_, _)
CarveBatchOffByOne(batch, queue) ==
    IF Len(batch) <= DEEPINT_UPDATE_INSTANCES_LIMIT /\ Len(queue) > 0
    THEN CarveBatchOffByOne(Append(batch, Head(queue)), Tail(queue))
    ELSE [batch |-> batch, queue |-> queue]

RECURSIVE CarveBatchPop(_, _)
CarveBatchPop(batch, queue) ==
    IF Len(batch) < DEEPINT_UPDATE_INSTANCES_LIMIT /\ Len(queue) > 0
    THEN CarveBatchPop(Append(batch, queue[Len(queue)]),
                       SubSeq(queue, 1, Len(queue) - 1))
    ELSE [batch |-> batch, queue |-> queue]

RECURSIVE CarveBatch(_, _)
CarveBatch(batch, queue) ==
    IF Len(batch) < DEEPINT_UPDATE_INSTANCES_LIMIT /\ Len(queue) > 0
    THEN CarveBatch(Append(batch, Head(queue)), Tail(queue))
    ELSE [batch |-> batch, queue |-> queue]

\* while (!this.closed) { await this.updateSem.acquire(); ...
LoopTop == IF closed THEN "terminated" ELSE "waiting"

WorkerInit ==
    /\ closed = FALSE
    /\ updateQueue = <<>>
    /\ updateSem = 0
    /\ requiredUpdate = FALSE
    /\ pc = "init"
    /\ instancesToPush = <<>>
    /\ inflight = <<>>
    /\ reqs = [r \in 1..MaxPushes |-> [n |-> 0, at |-> "new"]]
    /\ notices = 0
    /\ appended = <<>>
    /\ tried = <<>>
    /\ delivered = <<>>

\* runUpdateService() is called: the loop condition is tested.
RunUpdateService ==
    /\ pc = "init"
    /\ pc' = LoopTop
    /\ UNCHANGED <<closed, updateQueue, updateSem, requiredUpdate,
                   instancesToPush, inflight, reqs, notices, appended,
                   tried, delivered,
                   pureVars>>

\* await this.updateSem.acquire() takes a permit.
Acquire ==
    /\ pc = "waiting"
    /\ updateSem > 0
    /\ updateSem' = updateSem - 1
    /\ pc' = "awake"
    /\ UNCHANGED <<closed, updateQueue, requiredUpdate, instancesToPush,
                   inflight, reqs, notices, appended, tried, delivered,
                   pureVars>>

\* A wake-up without the test of the flag and of the queue: it always posts.
DrainAlways ==
    /\ pc = "awake"
    /\ LET carved == CarveBatch(<<>>, updateQueue) IN
        /\ instancesToPush' = carved.batch
        /\ updateQueue' = carved.queue
        /\ requiredUpdate' = FALSE
        /\ inflight' = carved.batch
        /\ tried' = <<[body |-> carved.batch, status |-> "pending"]>>
        /\ pc' = "sending"
    /\ UNCHANGED <<closed, updateSem, reqs, notices, appended, delivered,
                   pureVars>>

\* The worker resumes after acquire(): the spurious wake-up test, the carving
\* of the batch, the reset of the flag and the first POST.
Drain ==
    /\ pc = "awake"
    /\ IF ~requiredUpdate /\ Len(updateQueue) = 0
       THEN /\ pc' = LoopTop
            /\ UNCHANGED <<updateQueue, requiredUpdate, instancesToPush,
                           inflight, tried>>
       ELSE LET carved == CarveBatch(<<>>, updateQueue) IN
            /\ instancesToPush' = carved.batch
            /\ updateQueue' = carved.queue
            /\ requiredUpdate' = FALSE
            /\ inflight' = carved.batch
            /\ tried' = <<[body |-> carved.batch, status |-> "pending"]>>
            /\ pc' = "sending"
    /\ UNCHANGED <<closed, updateSem, reqs, notices, appended, delivered,
                   pureVars>>

\* The POST is answered with status 200: done = true, next iteration.
SendOk ==
    /\ pc = "sending"
    /\ delivered' = Append(delivered, inflight)
    /\ tried' = [tried EXCEPT ![Len(tried)].status = "ok"]
    /\ pc' = LoopTop
    /\ UNCHANGED <<closed, updateQueue, updateSem, requiredUpdate,
                   instancesToPush, inflight, reqs, notices, appended,
                   pureVars>>

\* The POST fails (error or status other than 200): setTimeout(resolve, 5000).
SendFail ==
    /\ pc = "sending"
    /\ Len(tried) <= MaxFailures
    /\ tried' = [tried EXCEPT ![Len(tried)].status = "failed"]
    /\ pc' = "retrywait"
    /\ UNCHANGED <<closed, updateQueue, updateSem, requiredUpdate,
                   instancesToPush, inflight, reqs, notices, appended,
                   delivered,
                   pureVars>>

\* A retry that carves again instead of posting the batch it holds.
RetryTimerRecarve ==
    /\ pc = "retrywait"
    /\ LET carved == CarveBatch(instancesToPush, updateQueue) IN
        /\ instancesToPush' = carved.batch
        /\ updateQueue' = carved.queue
        /\ inflight' = carved.batch
        /\ tried' = Append(tried, [body |-> carved.batch, status |-> "pending"])
    /\ pc' = "sending"
    /\ UNCHANGED <<closed, updateSem, requiredUpdate, reqs, notices,
                   appended, delivered,
                   pureVars>>

\* The 5 seconds have passed: the loop posts instancesToPush again.
RetryTimer ==
    /\ pc = "retrywait"
    /\ inflight' = instancesToPush
    /\ tried' = Append(tried, [body |-> instancesToPush, status |-> "pending"])
    /\ pc' = "sending"
    /\ UNCHANGED <<closed, updateQueue, updateSem, requiredUpdate,
                   instancesToPush, reqs, notices, appended, delivered,
                   pureVars>>

\* A notice that sets the flag and releases no permit.
NoticeUpdateFlagOnly ==
    /\ requiredUpdate' = TRUE
    /\ updateSem' = updateSem

\* this.requiredUpdate = true; this.updateSem.release();
NoticeUpdateEffect ==
    /\ requiredUpdate' = TRUE
    /\ updateSem' = updateSem + 1

\* POST /update/push with n instances: sanitizeInstances, then pushInstances
\* runs to its first await.
PushStart(r, n) ==
    /\ reqs[r].at = "new"
    /\ IF r = 1 THEN TRUE ELSE reqs[r - 1].at # "new"
    /\ reqs' = [reqs EXCEPT ![r] = [n |-> n, at |-> "insert"]]
    /\ UNCHANGED <<closed, updateQueue, updateSem, requiredUpdate, pc,
                   instancesToPush, inflight, notices, appended, tried,
                   delivered,
                   pureVars>>

\* connect() and insertMany() have resolved: the instances are queued and
\* pushInstances returns.
InsertOk(r) ==
    /\ reqs[r].at = "insert"
    /\ updateQueue' = EnqueueAll(updateQueue, Instances(r, reqs[r].n))
    /\ appended' = appended \o Instances(r, reqs[r].n)
    /\ reqs' = [reqs EXCEPT ![r] = [n |-> 0, at |-> "notice"]]
    /\ UNCHANGED <<closed, updateSem, requiredUpdate, pc, instancesToPush,
                   inflight, notices, tried, delivered,
                   pureVars>>

\* A push that queues its instances although the insert was rejected.
InsertFailEnqueue(r) ==
    /\ reqs[r].at = "insert"
    /\ updateQueue' = EnqueueAll(updateQueue, Instances(r, reqs[r].n))
    /\ appended' = appended \o Instances(r, reqs[r].n)
    /\ reqs' = [reqs EXCEPT ![r] = [n |-> 0, at |-> "failed"]]
    /\ UNCHANGED <<closed, updateSem, requiredUpdate, pc, instancesToPush,
                   inflight, notices, tried, delivered,
                   pureVars>>

\* connect() or insertMany() rejects: pushInstances rejects, and so does the
\* handler.
InsertFail(r) ==
    /\ reqs[r].at = "insert"
    /\ reqs' = [reqs EXCEPT ![r] = [n |-> 0, at |-> "failed"]]
    /\ UNCHANGED <<closed, updateQueue, updateSem, requiredUpdate, pc,
                   instancesToPush, inflight, notices, appended, tried,
                   delivered,
                   pureVars>>

\* The handler resumes after await pushInstances(): noticeUpdate(), then 200.
PushNotice(r) ==
    /\ reqs[r].at = "notice"
    /\ NoticeUpdateEffect
    /\ reqs' = [reqs EXCEPT ![r].at = "done"]
    /\ UNCHANGED <<closed, updateQueue, pc, instancesToPush, inflight,
                   notices, appended, tried, delivered,
                   pureVars>>

\* POST /update/notice
NoticeUpdate ==
    /\ notices < MaxNotices
    /\ notices' = notices + 1
    /\ NoticeUpdateEffect
    /\ UNCHANGED <<closed, updateQueue, pc, instancesToPush, inflight, reqs,
                   appended, tried, delivered,
                   pureVars>>

\* No call of the sanitizer or of the compiler is under study.
NoCall ==
    /\ raw = [k |-> "none"]
    /\ startDepth = 0
    /\ sanitized = [k |-> "none"]
    /\ resanitized = [k |-> "none"]
    /\ step = "none"
    /\ fields = <<>>
    /\ leafA = [k |-> "none"]
    /\ leafB = [k |-> "none"]
    /\ cond1 = [k |-> "none"]
    /\ cond2 = [k |-> "none"]
    /\ collection = <<>>
    /\ featureArg = 0
    /\ nominalValues = [k |-> "none"]

Init == WorkerInit /\ NoCall

Next ==
    \/ RunUpdateService
    \/ Acquire
    \/ Drain
    \/ SendOk
    \/ SendFail
    \/ RetryTimer
    \/ NoticeUpdate
    \/ \E r \in 1..MaxPushes : \E n \in PushSizes : PushStart(r, n)
    \/ \E r \in 1..MaxPushes : InsertOk(r)
    \/ \E r \in 1..MaxPushes : InsertFail(r)
    \/ \E r \in 1..MaxPushes : PushNotice(r)

Spec == Init /\ [][Next]_vars

\* The event loop runs every continuation that is ready, the 5 seconds of a
\* retry pass, and the remote endpoint answers 200 after at most MaxFailures
\* failures of a batch; the worker is never shut down (closed stays false).
Fairness ==
    /\ WF_vars(RunUpdateService)
    /\ WF_vars(Acquire)
    /\ WF_vars(Drain)
    /\ WF_vars(RetryTimer)
    /\ WF_vars(SendOk)

\* The sizes of the pushes in the runs with fairness: the carving of more than
\* 100 instances is the subject of the runs without it.
SmallPushSizes == {1, 2}

FairNext ==
    \/ RunUpdateService
    \/ Acquire
    \/ Drain
    \/ SendOk
    \/ SendFail
    \/ RetryTimer
    \/ NoticeUpdate
    \/ \E r \in 1..MaxPushes : \E n \in SmallPushSizes : PushStart(r, n)
    \/ \E r \in 1..MaxPushes : InsertOk(r)
    \/ \E r \in 1..MaxPushes : InsertFail(r)
    \/ \E r \in 1..MaxPushes : PushNotice(r)

FairSpec == Init /\ [][FairNext]_vars /\ Fairness

----------------------------------------------------------------------------
(* JavaScript values. A string is the sequence of its character codes; a     *)
(* number is counted in halves (h = 3 is 1.5), which is enough to tell an    *)
(* integer from a fraction; an object holds the five properties the code     *)
(* reads, a property it lacks being Undefined; an array has none of them.    *)

Undefined == [k |-> "undefined"]
Null == [k |-> "null"]
Bool(b) == [k |-> "boolean", b |-> b]
Num(h) == [k |-> "number", h |-> h]
IntNum(n) == Num(2 * n)
Str(s) == [k |-> "string", s |-> s]
Arr(items) == [k |-> "array", items |-> items]
Obj(type, operation, left, right, children) ==
    [k |-> "object",
     f |-> [type |-> type, operation |-> operation, left |-> left,
            right |-> right, children |-> children]]

\* An exception thrown instead of a value returned.
TypeError == [k |-> "throw", error |-> "TypeError"]

\* The strings of the code and of the inputs, as character codes.
S_single == <<115, 105, 110, 103, 108, 101>>  \* "single"
S_one == <<111, 110, 101>>  \* "one"
S_anyof == <<97, 110, 121, 111, 102>>  \* "anyof"
S_allof == <<97, 108, 108, 111, 102>>  \* "allof"
S_not == <<110, 111, 116>>  \* "not"
S_null == <<110, 117, 108, 108>>  \* "null"
S_eq == <<101, 113>>  \* "eq"
S_lt == <<108, 116>>  \* "lt"
S_le == <<108, 101>>  \* "le"
S_lte == <<108, 116, 101>>  \* "lte"
S_gt == <<103, 116>>  \* "gt"
S_ge == <<103, 101>>  \* "ge"
S_gte == <<103, 116, 101>>  \* "gte"
S_cn == <<99, 110>>  \* "cn"
S_cni == <<99, 110, 105>>  \* "cni"
S_sw == <<115, 119>>  \* "sw"
S_swi == <<115, 119, 105>>  \* "swi"
S_ew == <<101, 119>>  \* "ew"
S_ewi == <<101, 119, 105>>  \* "ewi"
S_undefined == <<117, 110, 100, 101, 102, 105, 110, 101, 100>>  \* "undefined"
S_true == <<116, 114, 117, 101>>  \* "true"
S_false == <<102, 97, 108, 115, 101>>  \* "false"
S_objectObject == <<91, 111, 98, 106, 101, 99, 116, 32, 79, 98, 106, 101, 99, 116, 93>>  \* "[object Object]"
S_SINGLE == <<83, 73, 78, 71, 76, 69>>  \* "SINGLE"
S_AnyOf == <<65, 110, 121, 79, 102>>  \* "AnyOf"
S_ALLOF == <<65, 76, 76, 79, 70>>  \* "ALLOF"
S_Not == <<78, 111, 116>>  \* "Not"
S_bogus == <<98, 111, 103, 117, 115>>  \* "bogus"
S_EQ == <<69, 81>>  \* "EQ"
S_Cni == <<67, 110, 105>>  \* "Cni"
S_abc == <<97, 98, 99>>  \* "abc"
S_aXb == <<97, 42, 98>>  \* "a*b"
S_y2020 == <<50, 48, 50, 48>>  \* "2020"
S_ABC == <<65, 66, 67>>  \* "ABC"

\* typeof v === "object"
TypeofObject(v) == v.k \in {"object", "array", "null"}

\* v.name, for v an object or an array
Get(v, name) == IF v.k = "object" THEN v.f[name] ELSE Undefined

\* The decimal digits of a natural number.
RECURSIVE Digits(_)
Digits(n) == IF n < 10 THEN <<48 + n>> ELSE Digits(n \div 10) \o <<48 + (n % 10)>>

\* "" + h/2
NumToStr(h) ==
    LET a == IF h < 0 THEN -h ELSE h
        sign == IF h < 0 THEN <<45>> ELSE <<>>
        frac == IF a % 2 = 1 THEN <<46, 53>> ELSE <<>>
    IN  sign \o Digits(a \div 2) \o frac

\* "" + v: the string conversion of the concatenation operator.
RECURSIVE ToStr(_)
RECURSIVE Join(_)
Join(items) ==
    IF items = <<>> THEN <<>>
    ELSE LET first == IF Head(items).k \in {"null", "undefined"} THEN <<>>
                      ELSE ToStr(Head(items))
         IN  IF Len(items) = 1 THEN first
             ELSE first \o <<44>> \o Join(Tail(items))

ToStr(v) ==
    CASE v.k = "string" -> v.s
      [] v.k = "undefined" -> S_undefined
      [] v.k = "null" -> S_null
      [] v.k = "boolean" -> (IF v.b THEN S_true ELSE S_false)
      [] v.k = "number" -> NumToStr(v.h)
      [] v.k = "array" -> Join(v.items)
      [] v.k = "object" -> S_objectObject

\* s.toLowerCase(), on ASCII
ToLowerCase(s) ==
    [i \in 1..Len(s) |-> IF s[i] \in 65..90 THEN s[i] + 32 ELSE s[i]]

\* s.substr(0, n)
Substr0(s, n) == IF Len(s) > n THEN SubSeq(s, 1, n) ELSE s

----------------------------------------------------------------------------
(* The query sanitizer: src/src/utils/deepint-sources.ts. *)

QUERY_TREE_MAX_DEPH == 4
QUERY_TREE_MAX_CHILDREN == 16
RIGHT_MAX_LENGTH == 1024

NodeTypes == {S_single, S_one, S_anyof, S_allof, S_not}

Combinators == {S_anyof, S_allof, S_not}

Operations == {S_null, S_eq, S_lt, S_le, S_lte, S_gt, S_ge, S_gte, S_cn,
               S_cni, S_sw, S_swi, S_ew, S_ewi}

\* const sanitized = { type: "anyof", operation: "", left: -1, right: "", children: [] }
DefaultNode == Obj(Str(S_anyof), Str(<<>>), IntNum(-1), Str(<<>>), Arr(<<>>))

\* let type = ("" + tree.type).toLowerCase(); if (![...].includes(type)) type = "anyof";
SanitizeType(v) ==
    LET type == ToLowerCase(ToStr(v))
    IN  Str(IF type \in NodeTypes THEN type ELSE S_anyof)

\* An operation that is not in the list becomes null instead of "".
SanitizeOperationNull(v) ==
    LET operation == ToLowerCase(ToStr(v))
    IN  IF operation \in Operations THEN Str(operation) ELSE Null

\* let operation = ("" + tree.operation).toLowerCase(); if (![...].includes(operation)) operation = "";
SanitizeOperation(v) ==
    LET operation == ToLowerCase(ToStr(v))
    IN  Str(IF operation \in Operations THEN operation ELSE <<>>)

\* let left = -1; if (typeof tree.left === "number") left = Math.floor(tree.left);
SanitizeLeft(v) == IF v.k = "number" THEN IntNum(v.h \div 2) ELSE IntNum(-1)

\* if (tree.right === null) null, else "" + tree.right cut to 1024 characters
SanitizeRight(v) ==
    IF v.k = "null" THEN Null ELSE Str(Substr0(ToStr(v), RIGHT_MAX_LENGTH))

\* The loop keeps one child too many.
ChildrenKeptOneMore(length) ==
    IF length <= QUERY_TREE_MAX_CHILDREN THEN length
    ELSE QUERY_TREE_MAX_CHILDREN + 1

\* for (let i = 0; i < tree.children.length && i < QUERY_TREE_MAX_CHILDREN; i++):
\* the number of children the loop visits.
ChildrenKept(length) ==
    IF length < QUERY_TREE_MAX_CHILDREN THEN length
    ELSE QUERY_TREE_MAX_CHILDREN

\* sanitizeQueryTree(tree, depth): the sanitized node, or the exception that
\* the read of a property of null, here or in a child, throws.
RECURSIVE sanitizeQueryTree(_, _)
sanitizeQueryTree(tree, depth) ==
    IF ~TypeofObject(tree) THEN DefaultNode
    ELSE IF tree.k = "null" THEN TypeError
    ELSE LET type == SanitizeType(Get(tree, "type"))
             operation == SanitizeOperation(Get(tree, "operation"))
             left == SanitizeLeft(Get(tree, "left"))
             right == SanitizeRight(Get(tree, "right"))
             children == Get(tree, "children")
             kept == IF /\ depth < QUERY_TREE_MAX_DEPH
                        /\ type.s \in Combinators
                        /\ children.k = "array"
                     THEN [i \in 1..ChildrenKept(Len(children.items)) |->
                              sanitizeQueryTree(children.items[i], depth + 1)]
                     ELSE <<>>
         IN  IF \E i \in 1..Len(kept) : kept[i] = TypeError
             THEN TypeError
             ELSE Obj(type, operation, left, right, Arr(kept))

\* DataSource.sanitizeFilter(json): if (!json) return null;
Falsy(v) ==
    \/ v.k \in {"null", "undefined"}
    \/ v.k = "boolean" /\ ~v.b
    \/ v.k = "number" /\ v.h = 0
    \/ v.k = "string" /\ v.s = <<>>

sanitizeFilter(json) == IF Falsy(json) THEN Null ELSE sanitizeQueryTree(json, 0)

----------------------------------------------------------------------------
(* The inputs the sanitizer is run on. *)

MaxNesting == 6      \* the deepest nesting of children in an input
MaxListed == 18      \* the most children an input node lists
MaxStartDepth == 5   \* the largest depth a call is started at

\* A string of n letters "a".
Letters(n) == [i \in 1..n |-> 97]

TypeInputs == {Str(S_single), Str(S_SINGLE), Str(S_one), Str(S_AnyOf),
               Str(S_ALLOF), Str(S_Not), Str(S_bogus), Undefined, Null, Num(3)}

OperationInputs == {Str(S_eq), Str(S_EQ), Str(S_lte), Str(S_Cni), Str(S_null),
                    Null, Undefined, Str(S_bogus), Str(<<>>)}

LeftInputs == {IntNum(0), IntNum(2), Num(3), Num(-1), Str(S_y2020), Undefined, Null}

RightInputs == {Null, Undefined, Str(S_abc), Str(<<>>), Num(5), IntNum(7),
                Bool(TRUE), Str(Letters(RIGHT_MAX_LENGTH)),
                Str(Letters(RIGHT_MAX_LENGTH + 1)),
                Arr(<<Str(S_abc), Null, IntNum(1)>>)}

\* Nodes with no children property.
LeafInputs ==
    {Obj(t, o, IntNum(0), Str(S_abc), Undefined) :
        t \in TypeInputs, o \in OperationInputs}
    \cup {Obj(Str(S_single), Str(S_eq), l, r, Undefined) :
        l \in LeftInputs, r \in RightInputs}

\* The i-th child of a wide node: a leaf that carries i as its left.
Child(i) == Obj(Str(S_single), Str(S_eq), IntNum(i), Str(S_abc), Undefined)

\* A node of type t whose children are given.
Node(t, items) == Obj(t, Undefined, Undefined, Undefined, Arr(items))

\* d nodes of type t nested through their only child, above bottom.
RECURSIVE Chain(_, _, _)
Chain(t, d, bottom) ==
    IF d = 0 THEN bottom ELSE Node(t, <<Chain(t, d - 1, bottom)>>)

\* A node of type t listing w children, the one at index at being sub.
Wide(t, w, at, sub) ==
    Node(t, [i \in 1..w |-> IF i = at THEN sub ELSE Child(i)])

TreeTypes == {Str(S_anyof), Str(S_ALLOF), Str(S_Not), Str(S_bogus), Undefined,
              Str(S_single), Str(S_one)}

Widths == {1, 2} \cup ((QUERY_TREE_MAX_CHILDREN - 1)..MaxListed)

TreeInputs ==
    {Chain(t, d, b) : t \in TreeTypes, d \in 1..MaxNesting,
                      b \in {Child(0), Null, IntNum(3)}}
    \cup {Node(t, <<>>) : t \in TreeTypes}
    \cup {Wide(t, w, w, Child(w)) : t \in TreeTypes, w \in Widths}
    \cup {Wide(t, w, IF first THEN 1 ELSE w, Chain(t, MaxNesting - 1, Child(0))) :
             t \in TreeTypes, w \in Widths, first \in BOOLEAN}
    \cup {Chain(t, d, Wide(t, w, w, Child(w))) :
             t \in TreeTypes, d \in (QUERY_TREE_MAX_DEPH - 1)..QUERY_TREE_MAX_DEPH,
             w \in (QUERY_TREE_MAX_CHILDREN..MaxListed)}
    \cup {Node(Str(top), <<Chain(t, d, Child(0))>>) :
             top \in {S_single, S_anyof}, t \in TreeTypes,
             d \in (QUERY_TREE_MAX_DEPH - 1)..(MaxNesting - 1)}
    \cup {Node(t, items) : t \in TreeTypes,
             items \in {<<Null>>, <<Child(1), Null>>,
                        <<IntNum(3), Str(S_abc), Bool(FALSE), Arr(<<Child(1)>>)>>}}
    \cup {Obj(t, Undefined, Undefined, Undefined, c) : t \in TreeTypes,
             c \in {Str(S_abc), Null, Child(1), IntNum(2)}}

ScalarInputs == {Undefined, Null, IntNum(0), Num(5), Str(<<>>), Str(S_abc),
                 Bool(FALSE), Bool(TRUE), Arr(<<>>), Arr(<<Child(1)>>)}

RawInputs == ScalarInputs \cup LeafInputs \cup TreeInputs

----------------------------------------------------------------------------
(* Calls of the sanitizer. *)

SanitizeInit ==
    /\ WorkerInit
    /\ raw \in RawInputs
    /\ startDepth \in 0..MaxStartDepth
    /\ sanitized = [k |-> "none"]
    /\ resanitized = [k |-> "none"]
    /\ step = "input"
    /\ fields = <<>>
    /\ leafA = [k |-> "none"]
    /\ leafB = [k |-> "none"]
    /\ cond1 = [k |-> "none"]
    /\ cond2 = [k |-> "none"]
    /\ collection = <<>>
    /\ featureArg = 0
    /\ nominalValues = [k |-> "none"]

\* sanitizeQueryTree(raw, startDepth)
Sanitize ==
    /\ step = "input"
    /\ sanitized' = sanitizeQueryTree(raw, startDepth)
    /\ step' = "sanitized"
    /\ UNCHANGED <<workerVars, raw, startDepth, resanitized, compileVars,
                   lookupVars>>

\* DataSource.sanitizeFilter(raw)
SanitizeFilter ==
    /\ step = "input"
    /\ startDepth = 0
    /\ sanitized' = sanitizeFilter(raw)
    /\ step' = "filtered"
    /\ UNCHANGED <<workerVars, raw, startDepth, resanitized, compileVars,
                   lookupVars>>

\* The tree that the sanitizer returned is sanitized again.
Resanitize ==
    /\ step = "sanitized"
    /\ sanitized.k # "throw"
    /\ resanitized' = sanitizeQueryTree(sanitized, startDepth)
    /\ step' = "resanitized"
    /\ UNCHANGED <<workerVars, raw, startDepth, sanitized, compileVars,
                   lookupVars>>

SanitizeNext == Sanitize \/ SanitizeFilter \/ Resanitize

SanitizeSpec == SanitizeInit /\ [][SanitizeNext]_vars

----------------------------------------------------------------------------
(* The codec and the filter compiler: src/src/utils/deepint-sources.ts.     *)
(* A Mongo filter is a JavaScript object: the sequence of its own keys, in  *)
(* insertion order, each with its value. A key is a string, the sequence of *)
(* its character codes.                                                     *)

NOMINAL_MAX_LENGTH == 255

K_or == <<36, 111, 114>>  \* "$or"
K_and == <<36, 97, 110, 100>>  \* "$and"
K_not == <<36, 110, 111, 116>>  \* "$not"
K_exists == <<36, 101, 120, 105, 115, 116, 115>>  \* "$exists"
K_eq == <<36, 101, 113>>  \* "$eq"
K_lt == <<36, 108, 116>>  \* "$lt"
K_lte == <<36, 108, 116, 101>>  \* "$lte"
K_gt == <<36, 103, 116>>  \* "$gt"
K_gte == <<36, 103, 116, 101>>  \* "$gte"
K_regex == <<36, 114, 101, 103, 101, 120>>  \* "$regex"
S_1 == <<49>>  \* "1"
S_0 == <<48>>  \* "0"
S_i == <<105>>  \* "i"

\* An object with the given keys: { key: val, ... }
Filter(entries) == [k |-> "filter", e |-> entries]

\* { key: val }
Single(key, val) == Filter(<<[key |-> key, val |-> val]>>)

\* {}
EmptyFilter == Filter(<<>>)

\* Object.keys(query)
ObjectKeys(query) == [i \in 1..Len(query.e) |-> query.e[i].key]

\* query[key]
Prop(query, key) ==
    IF \E i \in 1..Len(query.e) : query.e[i].key = key
    THEN query.e[CHOOSE i \in 1..Len(query.e) : query.e[i].key = key].val
    ELSE Undefined

\* query[key] = val: a key the object has keeps its place, a new one comes last.
Assign(query, key, val) ==
    IF \E i \in 1..Len(query.e) : query.e[i].key = key
    THEN Filter([i \in 1..Len(query.e) |->
                    IF query.e[i].key = key THEN [key |-> key, val |-> val]
                    ELSE query.e[i]])
    ELSE Filter(Append(query.e, [key |-> key, val |-> val]))

\* delete query[key]
Delete(query, key) == Filter(SelectSeq(query.e, LAMBDA en : en.key # key))

\* key.startsWith("$")
StartsWithDollar(key) == Len(key) > 0 /\ key[1] = 36

\* A Date: the first instant of a year of UTC plus ms milliseconds.
Date(year, ms) == [k |-> "date", year |-> year, ms |-> ms]

\* A Date that is valid or not as the engine's own date parser decides.
EngineDate(text) == [k |-> "date", parsed |-> text]

\* new RegExp(source, flags)
RegExp(source, flags) == [k |-> "regexp", source |-> source, flags |-> flags]

NaN == [k |-> "NaN"]

IsDigits(s) == \A i \in 1..Len(s) : s[i] \in 48..57

RECURSIVE Decimal(_)
Decimal(s) ==
    IF s = <<>> THEN 0 ELSE 10 * Decimal(SubSeq(s, 1, Len(s) - 1)) + s[Len(s)] - 48

\* Number(data). A string is read as far as the literals of the inputs need:
\* the empty string is 0, decimal digits are their value, and a string with
\* any character that is not a digit is NaN (no input holds white space, a
\* sign, a point, an exponent, a radix prefix or "Infinity").
ToNumber(data) ==
    CASE data.k = "number" -> data
      [] data.k = "boolean" -> IntNum(IF data.b THEN 1 ELSE 0)
      [] data.k = "undefined" -> NaN
      [] data.k = "null" -> IntNum(0)
      [] OTHER ->
            LET s == ToStr(data)
            IN  IF IsDigits(s) THEN IntNum(Decimal(s)) ELSE NaN

\* new Date(data), with the catch of the RangeError that toISOString() throws
\* on an invalid date: a year of four digits is the first instant of that
\* year, a string without a digit is invalid and gives new Date(0), any other
\* string is left to the engine's parser.
ToDate(data) ==
    CASE data.k = "number" -> Date(1970, data.h \div 2)
      [] data.k = "boolean" -> Date(1970, IF data.b THEN 1 ELSE 0)
      [] OTHER ->
            LET s == ToStr(data)
            IN  IF Len(s) = 4 /\ IsDigits(s) THEN Date(Decimal(s), 0)
                ELSE IF \A i \in 1..Len(s) : s[i] \notin 48..57 THEN Date(1970, 0)
                ELSE EngineDate(s)

\* turnInto(data, type)
turnInto(data, type) ==
    IF data.k \in {"null", "undefined"} THEN Null
    ELSE CASE type = "nominal" -> Str(Substr0(ToStr(data), NOMINAL_MAX_LENGTH))
           [] type = "date" -> ToDate(data)
           [] type = "numeric" ->
                 (IF ToNumber(data) = NaN THEN Null ELSE ToNumber(data))
           [] type = "logic" ->
                 (IF data \in {Str(S_true), Str(S_1)} THEN Bool(TRUE)
                  ELSE IF data \in {Str(S_false), Str(S_0)} THEN Bool(FALSE)
                  ELSE Bool(~Falsy(data)))
           [] OTHER -> Str(ToStr(data))

\* The characters of the class [-[\]{}()*+?.,\\^$|#\s], on ASCII.
RegExpSpecial == {45, 91, 93, 123, 125, 40, 41, 42, 43, 63, 46, 44, 92, 94,
                  36, 124, 35, 9, 10, 11, 12, 13, 32}

RECURSIVE EscapeFrom(_, _)
EscapeFrom(s, i) ==
    IF i > Len(s) THEN <<>>
    ELSE (IF s[i] \in RegExpSpecial THEN <<92, s[i]>> ELSE <<s[i]>>)
         \o EscapeFrom(s, i + 1)

\* escapeRegExp(text): text.replace(...) is a TypeError unless text is a string
escapeRegExp(text) ==
    IF text.k = "string" THEN Str(EscapeFrom(text.s, 1)) ELSE TypeError

\* A negation that negates the members of $and and of $or and leaves the
\* key as it was.
RECURSIVE NegateKeepingKey(_)
RECURSIVE NegateKeepingKeyFrom(_, _, _)
NegateKeepingKeyFrom(query, keys, i) ==
    IF i > Len(keys) THEN query
    ELSE LET key == keys[i]
             members == Prop(query, key).items
             negated == Arr([j \in 1..Len(members) |-> NegateKeepingKey(members[j])])
         IN  IF ~StartsWithDollar(key)
             THEN NegateKeepingKeyFrom(
                      Assign(query, key, Single(K_not, Prop(query, key))), keys, i + 1)
             ELSE IF key \in {K_and, K_or}
             THEN NegateKeepingKeyFrom(Assign(query, key, negated), keys, i + 1)
             ELSE IF key = K_not THEN Prop(query, key)
             ELSE NegateKeepingKeyFrom(query, keys, i + 1)

NegateKeepingKey(query) == NegateKeepingKeyFrom(query, ObjectKeys(query), 1)

\* negateMongoQuery(query); NegateFrom is its loop over keys, from the i-th on.
RECURSIVE negateMongoQuery(_)
RECURSIVE NegateFrom(_, _, _)
NegateFrom(query, keys, i) ==
    IF i > Len(keys) THEN query
    ELSE LET key == keys[i]
             members == Prop(query, key).items
             negated == Arr([j \in 1..Len(members) |-> negateMongoQuery(members[j])])
         IN  IF ~StartsWithDollar(key)
             THEN NegateFrom(
                      Assign(query, key, Single(K_not, Prop(query, key))), keys, i + 1)
             ELSE IF key = K_and
             THEN NegateFrom(Delete(Assign(query, K_or, negated), K_and), keys, i + 1)
             ELSE IF key = K_or
             THEN NegateFrom(Delete(Assign(query, K_and, negated), K_or), keys, i + 1)
             ELSE IF key = K_not THEN Prop(query, key)
             ELSE NegateFrom(query, keys, i + 1)

negateMongoQuery(query) == NegateFrom(query, ObjectKeys(query), 1)

\* The regular expression of a pattern operation, or the exception that
\* escapeRegExp throws.
Pattern(name, before, cmp, after, flags) ==
    LET escaped == escapeRegExp(cmp)
    IN  IF escaped.k = "throw" THEN escaped
        ELSE Single(name, Single(K_regex,
                                 RegExp(before \o escaped.s \o after, flags)))

\* toMongoFilter, the default case of switch (query.type): a leaf.
CompileLeaf(features, query) ==
    LET operation == query.f.operation
        right == query.f.right
        left == query.f.left.h \div 2
    IN  IF operation # Str(S_null) /\ right = Null THEN EmptyFilter
        ELSE IF left < 0 \/ left >= Len(features) THEN EmptyFilter
        ELSE LET feature == features[left + 1]
                 cmp == turnInto(right, feature.type)
             IN  CASE operation.s = S_null ->
                        Single(K_or, Arr(<<Single(K_exists, Bool(FALSE)),
                                           Single(K_eq, Null)>>))
                   [] operation.s = S_eq -> Single(feature.name, Single(K_eq, cmp))
                   [] operation.s = S_lt -> Single(feature.name, Single(K_lt, cmp))
                   [] operation.s \in {S_le, S_lte} ->
                        Single(feature.name, Single(K_lte, cmp))
                   [] operation.s = S_gt -> Single(feature.name, Single(K_gt, cmp))
                   [] operation.s \in {S_ge, S_gte} ->
                        Single(feature.name, Single(K_gte, cmp))
                   [] operation.s = S_cn -> Pattern(feature.name, <<>>, cmp, <<>>, <<>>)
                   [] operation.s = S_cni -> Pattern(feature.name, <<>>, cmp, <<>>, S_i)
                   [] operation.s = S_sw -> Pattern(feature.name, <<94>>, cmp, <<>>, <<>>)
                   [] operation.s = S_swi -> Pattern(feature.name, <<94>>, cmp, <<>>, S_i)
                   [] operation.s = S_ew -> Pattern(feature.name, <<>>, cmp, <<36>>, <<>>)
                   [] operation.s = S_ewi -> Pattern(feature.name, <<>>, cmp, <<36>>, S_i)
                   [] OTHER -> EmptyFilter

\* toMongoFilter(features, query): the filter, or the exception thrown while
\* a leaf, here or below, was compiled.
RECURSIVE toMongoFilter(_, _)
toMongoFilter(features, query) ==
    IF Falsy(query) THEN EmptyFilter
    ELSE LET type == query.f.type.s
             children == query.f.children.items
             compiled == [i \in 1..Len(children) |->
                             toMongoFilter(features, children[i])]
         IN  IF type \notin Combinators THEN CompileLeaf(features, query)
             ELSE IF \E i \in 1..Len(compiled) : compiled[i] = TypeError
             THEN TypeError
             ELSE IF Len(compiled) = 0 THEN EmptyFilter
             ELSE CASE type = S_anyof -> Single(K_or, Arr(compiled))
                    [] type = S_allof -> Single(K_and, Arr(compiled))
                    [] type = S_not -> negateMongoQuery(Single(K_and, Arr(compiled)))

\* DataSource: this.fields = sourceFeatures.map((f, i) => ({index, name, type}))
Fields(sourceFeatures, sourceFeaturesTypes) ==
    [i \in 1..Len(sourceFeatures) |->
        [index |-> i - 1,
         name |-> sourceFeatures[i],
         type |-> IF i <= Len(sourceFeaturesTypes) /\ sourceFeaturesTypes[i] # ""
                  THEN sourceFeaturesTypes[i] ELSE "text"]]

----------------------------------------------------------------------------
(* The rows of the collection and what a filter matches (the target          *)
(* predicate semantics: the query operators of MongoDB).                     *)

\* The value of a field the row does not have.
Absent == Undefined

\* The values a field of each type holds in the rows under study.
FieldValues(type) ==
    CASE type = "nominal" -> <<Absent, Null, Str(S_abc), Str(S_aXb)>>
      [] type = "text" -> <<Absent, Null, Str(S_abc), Str(S_ABC)>>
      [] type = "numeric" -> <<Absent, Null, IntNum(0), IntNum(2020)>>
      [] type = "logic" -> <<Absent, Null, Bool(TRUE), Bool(FALSE)>>
      [] type = "date" -> <<Absent, Null, Date(1970, 0), Date(2020, 0)>>

\* The rows over a schema: a row gives each feature one of its values.
Rows(features) == [1..Len(features) -> 1..4]

\* row[name]
Field(features, row, name) ==
    IF \E i \in 1..Len(features) : features[i].name = name
    THEN LET i == CHOOSE j \in 1..Len(features) : features[j].name = name
         IN  FieldValues(features[i].type)[row[i]]
    ELSE Absent

RECURSIVE StrLess(_, _)
StrLess(a, b) ==
    IF b = <<>> THEN FALSE
    ELSE IF a = <<>> THEN TRUE
    ELSE IF Head(a) # Head(b) THEN Head(a) < Head(b)
    ELSE StrLess(Tail(a), Tail(b))

\* v sorts before w; values of different types are not compared.
Less(v, w) ==
    /\ v.k = w.k
    /\ CASE v.k = "number" -> v.h < w.h
         [] v.k = "string" -> StrLess(v.s, w.s)
         [] v.k = "boolean" -> ~v.b /\ w.b
         [] v.k = "date" -> v.year < w.year \/ (v.year = w.year /\ v.ms < w.ms)
         [] OTHER -> FALSE

\* v equals w, a field that is absent being equal to null.
Equal(v, w) == IF w = Null THEN v \in {Null, Absent} ELSE v = w

\* The characters of a pattern, each with whether a backslash precedes it.
RECURSIVE Tokens(_, _)
Tokens(source, i) ==
    IF i > Len(source) THEN <<>>
    ELSE IF source[i] = 92 /\ i < Len(source)
    THEN <<[c |-> source[i + 1], escaped |-> TRUE]>> \o Tokens(source, i + 2)
    ELSE <<[c |-> source[i], escaped |-> FALSE]>> \o Tokens(source, i + 1)

\* re.test(s), for the patterns the compiler builds: a literal text, with ^
\* before it or $ after it.
RegExpTest(re, s) ==
    LET tokens == Tokens(re.source, 1)
        n == Len(tokens)
        fromStart == n > 0 /\ tokens[1] = [c |-> 94, escaped |-> FALSE]
        toEnd == n > 0 /\ tokens[n] = [c |-> 36, escaped |-> FALSE]
        first == IF fromStart THEN 2 ELSE 1
        last == IF toEnd THEN n - 1 ELSE n
        fold(t) == IF re.flags = S_i THEN ToLowerCase(t) ELSE t
        text == fold([i \in 1..(last - first + 1) |-> tokens[first + i - 1].c])
        subject == fold(s)
        m == Len(text)
    IN  \E at \in 1..(Len(subject) - m + 1) :
            /\ SubSeq(subject, at, at + m - 1) = text
            /\ fromStart => at = 1
            /\ toEnd => at + m - 1 = Len(subject)

\* The field value v satisfies the operator expression.
RECURSIVE Satisfies(_, _)
Satisfies(v, expression) ==
    \A i \in 1..Len(expression.e) :
        LET key == expression.e[i].key
            val == expression.e[i].val
        IN  CASE key = K_eq -> Equal(v, val)
              [] key = K_lt -> Less(v, val)
              [] key = K_lte -> Less(v, val) \/ Equal(v, val)
              [] key = K_gt -> Less(val, v)
              [] key = K_gte -> Less(val, v) \/ Equal(v, val)
              [] key = K_regex -> v.k = "string" /\ RegExpTest(val, v.s)
              [] key = K_not -> ~Satisfies(v, val)
              [] key = K_exists -> (v # Absent) = val.b
              [] OTHER -> FALSE

\* The store accepts the filter: at the top level an operator is $and or $or
\* with a list that is not empty, and never $exists, $eq or $not.
RECURSIVE Accepts(_)
Accepts(filter) ==
    \A i \in 1..Len(filter.e) :
        LET key == filter.e[i].key
            val == filter.e[i].val
        IN  IF ~StartsWithDollar(key) THEN TRUE
            ELSE /\ key \in {K_and, K_or}
                 /\ val.k = "array"
                 /\ val.items # <<>>
                 /\ \A j \in 1..Len(val.items) : Accepts(val.items[j])

\* The row satisfies a filter that the store accepts.
RECURSIVE Matches(_, _, _)
Matches(features, row, filter) ==
    \A i \in 1..Len(filter.e) :
        LET key == filter.e[i].key
            val == filter.e[i].val
        IN  CASE key = K_and ->
                   \A j \in 1..Len(val.items) : Matches(features, row, val.items[j])
              [] key = K_or ->
                   \E j \in 1..Len(val.items) : Matches(features, row, val.items[j])
              [] OTHER -> Satisfies(Field(features, row, key), val)

\* What a find with the filter does with the row.
Find(features, row, filter) ==
    IF ~Accepts(filter) THEN "rejected"
    ELSE IF Matches(features, row, filter) THEN "match"
    ELSE "nomatch"

----------------------------------------------------------------------------
(* The inputs the compiler is run on, and its calls. *)

N_color == <<99, 111, 108, 111, 114>>  \* "color"
N_note == <<110, 111, 116, 101>>  \* "note"
N_age == <<97, 103, 101>>  \* "age"
N_ok == <<111, 107>>  \* "ok"
N_born == <<98, 111, 114, 110>>  \* "born"

\* A feature of each type; and two features, the second without a declared type.
Schemas ==
    {Fields(<<N_color, N_note, N_age, N_ok, N_born>>,
            <<"nominal", "text", "numeric", "logic", "date">>),
     Fields(<<N_age, N_note>>, <<"numeric">>)}

\* The indexes a leaf names: none, each feature of the larger schema, one more.
Lefts == -1..5

Literals == {Null, Str(<<>>), Str(S_abc), Str(S_aXb), Str(S_y2020),
             Str(S_true), Str(S_ABC)}

Leaf(operation, left, right) ==
    Obj(Str(S_single), operation, IntNum(left), right, Undefined)

\* Every operation of the sanitizer's list, and one that is not in it, with
\* every index and every literal.
Leaves ==
    {Leaf(Str(o), l, r) : o \in Operations \cup {S_bogus}, l \in Lefts, r \in Literals}

\* The second leaf of a pair.
OtherLeaves ==
    {Leaf(Str(S_null), 0, Null), Leaf(Str(S_null), 2, Null),
     Leaf(Str(S_eq), 1, Str(S_abc)), Leaf(Str(S_lt), 0, Str(S_y2020)),
     Leaf(Str(S_Cni), 1, Str(S_ABC)), Leaf(Str(S_sw), 0, Str(S_aXb)),
     Leaf(Str(S_ge), 4, Str(S_y2020)), Leaf(Str(S_bogus), 0, Str(S_abc))}

\* not(allof(A, B))
NotAllOf(a, b) == Node(Str(S_not), <<Node(Str(S_allof), <<a, b>>)>>)

\* anyof(not(A), not(B))
AnyOfNots(a, b) ==
    Node(Str(S_anyof), <<Node(Str(S_not), <<a>>), Node(Str(S_not), <<b>>)>>)

CompileInit ==
    /\ WorkerInit
    /\ raw = [k |-> "none"]
    /\ startDepth = 0
    /\ sanitized = [k |-> "none"]
    /\ resanitized = [k |-> "none"]
    /\ step = "input"
    /\ fields \in Schemas
    /\ leafA \in Leaves
    /\ leafB \in OtherLeaves
    /\ cond1 = [k |-> "none"]
    /\ cond2 = [k |-> "none"]
    /\ collection = <<>>
    /\ featureArg = 0
    /\ nominalValues = [k |-> "none"]

\* toMongoFilter(this.fields, filter) on the sanitized leaf A
Compile ==
    /\ step = "input"
    /\ cond1' = toMongoFilter(fields, sanitizeFilter(leafA))
    /\ step' = "compiled"
    /\ UNCHANGED <<workerVars, raw, startDepth, sanitized, resanitized,
                   fields, leafA, leafB, cond2,
                   lookupVars>>

\* toMongoFilter(this.fields, filter) on the sanitized leaf B
CompileOther ==
    /\ step = "compiled"
    /\ cond2' = toMongoFilter(fields, sanitizeFilter(leafB))
    /\ step' = "pair"
    /\ UNCHANGED <<workerVars, raw, startDepth, sanitized, resanitized,
                   fields, leafA, leafB, cond1,
                   lookupVars>>

\* toMongoFilter(this.fields, filter) on the sanitized not(allof(A, B))
CompileNotAllOf ==
    /\ step = "input"
    /\ cond1' = toMongoFilter(fields, sanitizeFilter(NotAllOf(leafA, leafB)))
    /\ step' = "negated"
    /\ UNCHANGED <<workerVars, raw, startDepth, sanitized, resanitized,
                   fields, leafA, leafB, cond2,
                   lookupVars>>

\* toMongoFilter(this.fields, filter) on the sanitized anyof(not(A), not(B))
CompileAnyOfNots ==
    /\ step = "negated"
    /\ cond2' = toMongoFilter(fields, sanitizeFilter(AnyOfNots(leafA, leafB)))
    /\ step' = "both"
    /\ UNCHANGED <<workerVars, raw, startDepth, sanitized, resanitized,
                   fields, leafA, leafB, cond1,
                   lookupVars>>

CompileNext == Compile \/ CompileOther \/ CompileNotAllOf \/ CompileAnyOfNots

CompileSpec == CompileInit /\ [][CompileNext]_vars

----------------------------------------------------------------------------
(* The sanitizer of pushed instances: DataSource.sanitizeInstances and its    *)
(* call in the handler of POST /update/push. A pushed row is a JavaScript    *)
(* object: the sequence of its keys, each with its value.                    *)

MaxElements == 2     \* the most elements the body of a push holds

\* { key: val, ... }
Row(entries) == [k |-> "row", e |-> entries]

\* typeof i === "object"
TypeofObjectElement(i) == i.k \in {"row", "object", "array", "null"}

\* row[name], for a row that is not null
Member(row, name) ==
    IF row.k = "row" /\ \E j \in 1..Len(row.e) : row.e[j].key = name
    THEN row.e[CHOOSE j \in 1..Len(row.e) : row.e[j].key = name].val
    ELSE Undefined

\* The callback of instances.map: one value per feature, in the order of
\* this.fields; row[feature.name] is a TypeError if the row is null.
SanitizeInstance(features, i) ==
    LET row == IF TypeofObjectElement(i) THEN i ELSE Row(<<>>)
    IN  IF row.k = "null" /\ Len(features) > 0 THEN TypeError
        ELSE Arr([f \in 1..Len(features) |->
                     turnInto(Member(row, features[f].name), features[f].type)])

\* DataSource.sanitizeInstances(instances)
sanitizeInstances(features, instances) ==
    IF instances.k # "array" THEN Arr(<<>>)
    ELSE LET mapped == [n \in 1..Len(instances.items) |->
                           SanitizeInstance(features, instances.items[n])]
         IN  IF \E n \in 1..Len(mapped) : mapped[n] = TypeError THEN TypeError
             ELSE Arr(mapped)

\* request.body || []
BodyOrEmpty(body) == IF Falsy(body) THEN Arr(<<>>) ELSE body

\* The elements of the bodies under study.
Elements ==
    {Null, IntNum(3), Str(S_abc), Bool(TRUE), Arr(<<Str(S_abc)>>), Row(<<>>),
     Row(<<[key |-> N_color, val |-> Str(S_abc)],
           [key |-> N_age, val |-> Str(S_y2020)]>>),
     Row(<<[key |-> N_age, val |-> Num(5)],
           [key |-> N_ok, val |-> Str(S_true)],
           [key |-> N_born, val |-> Str(S_y2020)],
           [key |-> N_note, val |-> IntNum(7)],
           [key |-> N_color, val |-> Null]>>)}

\* The bodies under study: arrays of up to MaxElements elements, and bodies
\* that are not arrays.
Bodies ==
    {Arr(items) : items \in UNION {[1..n -> Elements] : n \in 0..MaxElements}}
    \cup {Undefined, Null, IntNum(0), Str(S_abc), Row(<<>>)}

InstancesInit ==
    /\ WorkerInit
    /\ raw \in Bodies
    /\ startDepth = 0
    /\ sanitized = [k |-> "none"]
    /\ resanitized = [k |-> "none"]
    /\ step = "input"
    /\ fields \in Schemas \cup {<<>>}
    /\ leafA = [k |-> "none"]
    /\ leafB = [k |-> "none"]
    /\ cond1 = [k |-> "none"]
    /\ cond2 = [k |-> "none"]
    /\ collection = <<>>
    /\ featureArg = 0
    /\ nominalValues = [k |-> "none"]

\* StatusController.pushInstances: sanitizeInstances(request.body || [])
SanitizeInstances ==
    /\ step = "input"
    /\ sanitized' = sanitizeInstances(fields, BodyOrEmpty(raw))
    /\ step' = "instances"
    /\ UNCHANGED <<workerVars, raw, startDepth, resanitized, compileVars,
                   lookupVars>>

InstancesNext == SanitizeInstances

InstancesSpec == InstancesInit /\ [][InstancesNext]_vars

----------------------------------------------------------------------------
(* Claims about the update queue and the worker. *)

Min(a, b) == IF a < b THEN a ELSE b

\* No handler is between its insert and its noticeUpdate().
NoPushInProgress == \A r \in 1..MaxPushes : reqs[r].at \in {"new", "done", "failed"}

\* The worker is blocked in acquire() with no permit left and no handler is
\* running: nothing happens any more unless a new request arrives.
Quiescent == pc = "waiting" /\ updateSem = 0 /\ NoPushInProgress

\* C1: every instance appended to the update queue is eventually delivered,
\* with no further push or notice needed. Once the system is quiescent only a
\* further request can make the worker move, so the claim requires every
\* appended instance to have been delivered by then.
C1_EventualDelivery == Quiescent => Concat(delivered) = appended

\* C2: every POST made for a batch carries the batch as it was carved; all
\* POSTs but the last have failed; while the worker is sending or waiting to
\* retry it removes nothing from the queue and keeps the batch; and the batch
\* delivered at the first success is that batch, after k failures and k + 1
\* POSTs of it.
C2_SameBody ==
    /\ \A i \in 1..Len(tried) : tried[i].body = instancesToPush
    /\ \A i \in 1..(Len(tried) - 1) : tried[i].status = "failed"
    /\ pc = "sending" => tried[Len(tried)].status = "pending" /\ inflight = instancesToPush
    /\ pc = "retrywait" => tried[Len(tried)].status = "failed"

C2_Step ==
    pc \in {"sending", "retrywait"} =>
        /\ instancesToPush' = instancesToPush
        /\ IsPrefix(updateQueue, updateQueue')
        /\ IF pc' \in {"sending", "retrywait"}
           THEN delivered' = delivered
           ELSE /\ delivered' = Append(delivered, instancesToPush)
                /\ Len(tried') = Len(tried)
                /\ tried'[Len(tried')].status = "ok"

C2_RetryKeepsBatch == [](C2_SameBody) /\ [][C2_Step]_vars

\* C2 witness: a non-empty batch was delivered at the third POST, after two
\* failures during which more instances were waiting in the queue.
C2_Witness ==
    /\ Len(tried) = 3
    /\ tried[3].status = "ok"
    /\ tried[1].body # <<>>
    /\ Len(updateQueue) > 0
    /\ delivered # <<>>

\* C3: the delivered batches, concatenated in the order of their delivery, are
\* a prefix of the instances in the order they were appended, and no instance
\* is delivered twice.
C3_FifoDelivery ==
    LET d == Concat(delivered) IN
    /\ IsPrefix(d, appended)
    /\ Cardinality({d[i] : i \in 1..Len(d)}) = Len(d)

\* C3 witness: two non-empty batches were delivered, instances of two pushes
\* were appended, and some are still queued.
C3_Witness ==
    /\ Len(delivered) >= 2
    /\ delivered[1] # <<>>
    /\ delivered[2] # <<>>
    /\ Len(updateQueue) > 0
    /\ \E i, j \in 1..Len(appended) : appended[i][1] # appended[j][1]

\* C4: a drain of a queue of n instances moves its first min(100, n)
\* instances, in order, to the batch and leaves the others in order; no body
\* posted or delivered holds more than 100 instances.
C4_DrainStep ==
    (pc = "awake" /\ pc' = "sending") =>
        LET n == Len(updateQueue)
            k == Min(100, n)
        IN  /\ Len(instancesToPush') = k
            /\ \A i \in 1..k : instancesToPush'[i] = updateQueue[i]
            /\ Len(updateQueue') = n - k
            /\ \A i \in 1..(n - k) : updateQueue'[i] = updateQueue[k + i]
            /\ inflight' = instancesToPush'

C4_BatchSizes ==
    /\ Len(inflight) <= 100
    /\ \A i \in 1..Len(tried) : Len(tried[i].body) <= 100
    /\ \A i \in 1..Len(delivered) : Len(delivered[i]) <= 100

C4_BatchCarving == [](C4_BatchSizes) /\ [][C4_DrainStep]_vars

\* C4 witness: 202 instances were queued and two drains delivered batches of
\* 100 and 100, with 2 instances still queued.
C4_Witness ==
    /\ Len(appended) = 202
    /\ Len(delivered) = 2
    /\ Len(delivered[1]) = 100
    /\ Len(delivered[2]) = 100
    /\ Len(updateQueue) = 2

----------------------------------------------------------------------------
(* Claims about the sanitizer. *)

Max(a, b) == IF a > b THEN a ELSE b

\* The children of a sanitized node.
Kids(s) == s.f.children.items

\* The items of the children array of an input value, if it has one.
Listed(t) ==
    IF t.k = "object" /\ Get(t, "children").k = "array"
    THEN Get(t, "children").items ELSE <<>>

\* The depth of a sanitized tree, a node without children having depth 0.
RECURSIVE Depth(_)
RECURSIVE MaxDepth(_, _)
MaxDepth(nodes, i) ==
    IF i > Len(nodes) THEN 0 ELSE Max(Depth(nodes[i]), MaxDepth(nodes, i + 1))

Depth(s) == IF Kids(s) = <<>> THEN 0 ELSE 1 + MaxDepth(Kids(s), 1)

\* The depth to which an input value nests children arrays.
RECURSIVE RawDepth(_)
RECURSIVE MaxRawDepth(_, _)
MaxRawDepth(values, i) ==
    IF i > Len(values) THEN 0
    ELSE Max(RawDepth(values[i]), MaxRawDepth(values, i + 1))

RawDepth(t) == IF Listed(t) = <<>> THEN 0 ELSE 1 + MaxRawDepth(Listed(t), 1)

\* The type of the input node reads single or one, in any letter case.
LeafTyped(t) == ToLowerCase(ToStr(Get(t, "type"))) \in {S_single, S_one}

\* The depth to which an input value nests children arrays when a node typed
\* single or one counts as childless and only the first 16 children count.
RECURSIVE CombinatorDepth(_)
RECURSIVE MaxCombinatorDepth(_, _)
MaxCombinatorDepth(values, i) ==
    IF i > Min(16, Len(values)) THEN 0
    ELSE Max(CombinatorDepth(values[i]), MaxCombinatorDepth(values, i + 1))

CombinatorDepth(t) ==
    IF Listed(t) = <<>> \/ LeafTyped(t) THEN 0
    ELSE 1 + MaxCombinatorDepth(Listed(t), 1)

\* A call of sanitizeQueryTree at the root has returned a tree.
SanitizedAtRoot == step = "sanitized" /\ startDepth = 0 /\ sanitized.k # "throw"

\* C5: sanitizeQueryTree and sanitizeFilter return for every input, at every
\* depth.
C5_SanitizerTotal == step \in {"sanitized", "filtered"} => sanitized.k # "throw"

\* C9, as claimed: every node that lists more than 16 children keeps exactly
\* the first 16, sanitized and in order.
RECURSIVE KeepsFirst16(_, _, _)
KeepsFirst16(t, s, d) ==
    /\ Len(Listed(t)) > 16 =>
          /\ Len(Kids(s)) = 16
          /\ \A i \in 1..16 : Kids(s)[i] = sanitizeQueryTree(Listed(t)[i], d + 1)
    /\ \A i \in 1..Len(Kids(s)) : KeepsFirst16(Listed(t)[i], Kids(s)[i], d + 1)

\* C9, as claimed: an input nested deeper than 4 is sanitized to a tree of
\* depth exactly 4, and a node listing more than 16 children keeps exactly
\* the first 16.
C9_AsClaimed ==
    SanitizedAtRoot =>
        /\ RawDepth(raw) > 4 => Depth(sanitized) = 4
        /\ KeepsFirst16(raw, sanitized, 0)

\* C9, amended: a node keeps children only below depth 4 and only if its type
\* is not single or one; it then keeps the first 16 it lists (all of them if
\* it lists fewer), sanitized and in order.
RECURSIVE KeepsWithinBounds(_, _, _)
KeepsWithinBounds(t, s, d) ==
    LET n == IF d < 4 /\ ~LeafTyped(t) THEN Min(16, Len(Listed(t))) ELSE 0
    IN  /\ Len(Kids(s)) = n
        /\ \A i \in 1..n :
              /\ Kids(s)[i] = sanitizeQueryTree(Listed(t)[i], d + 1)
              /\ KeepsWithinBounds(Listed(t)[i], Kids(s)[i], d + 1)

\* C9, amended: the sanitized tree has the depth of the input, counted through
\* the nodes whose type is not single or one and through the first 16
\* children of each, cut at 4; and every node keeps its children within the
\* bounds.
C9_BoundEnforcement ==
    SanitizedAtRoot =>
        /\ Depth(sanitized) = Min(4, CombinatorDepth(raw))
        /\ KeepsWithinBounds(raw, sanitized, 0)

\* C9 witness: an input nested deeper than 4 whose root lists more than 16
\* children was sanitized to a tree of depth 4 whose root has 16 children.
C9_Witness ==
    /\ SanitizedAtRoot
    /\ RawDepth(raw) > 4
    /\ Len(Listed(raw)) > 16
    /\ Depth(sanitized) = 4
    /\ Len(Kids(sanitized)) = 16

\* Two sanitized nodes are equal field by field, and so are their children.
RECURSIVE SameNode(_, _)
SameNode(a, b) ==
    /\ a.k = "object" /\ b.k = "object"
    /\ a.f.type = b.f.type
    /\ a.f.operation = b.f.operation
    /\ a.f.left = b.f.left
    /\ a.f.right = b.f.right
    /\ Len(Kids(a)) = Len(Kids(b))
    /\ \A i \in 1..Len(Kids(a)) : SameNode(Kids(a)[i], Kids(b)[i])

\* C10: a tree that the sanitizer returned is sanitized to itself.
C10_Idempotent == step = "resanitized" => SameNode(resanitized, sanitized)

\* C10 witness: the sanitizer changed its input (it lower-cased the type, cut
\* the children to 16 and the depth to 4) and was run again on its result.
C10_Witness ==
    /\ step = "resanitized"
    /\ startDepth = 0
    /\ Get(raw, "type") = Str(S_ALLOF)
    /\ Len(Listed(raw)) > 16
    /\ RawDepth(raw) > 4
    /\ Len(Kids(sanitized)) = 16
    /\ Depth(sanitized) = 4

----------------------------------------------------------------------------
(* Claims about the filter compiler. *)

\* The compiler was called and raised.
Raised(result) == result.k = "throw"

\* The leaf, once sanitized, indexes a feature of the schema.
HasFeature(leaf) == sanitizeFilter(leaf).f.left.h \div 2 \in 0..(Len(fields) - 1)

\* The leaf, once sanitized, has the operation null and indexes a feature.
IsNullLeaf(leaf) ==
    /\ sanitizeFilter(leaf).f.operation = Str(S_null)
    /\ HasFeature(leaf)

\* The feature that the leaf indexes.
FeatureOf(leaf) == fields[(sanitizeFilter(leaf).f.left.h \div 2) + 1]

\* The key occurs in the filter, at the top or in a member of a list.
RECURSIVE Mentions(_, _)
Mentions(flt, key) ==
    \E i \in 1..Len(flt.e) :
        \/ flt.e[i].key = key
        \/ /\ flt.e[i].val.k = "array"
           /\ \E j \in 1..Len(flt.e[i].val.items) :
                 Mentions(flt.e[i].val.items[j], key)

\* C6: toMongoFilter returns a filter, without raising, for every schema and
\* every sanitized tree: every operation with every feature type and literal.
C6_CompileNeverRaises ==
    /\ step \in {"compiled", "pair", "negated", "both"} => ~Raised(cond1)
    /\ step \in {"pair", "both"} => ~Raised(cond2)

\* C7: the filter compiled from a leaf of operation null on feature f names f
\* and matches a row exactly when the row lacks f or holds null in it; two
\* such leaves on different features compile to different filters.
C7_NullTestsField ==
    /\ (step \in {"compiled", "pair"} /\ IsNullLeaf(leafA)) =>
          /\ Mentions(cond1, FeatureOf(leafA).name)
          /\ \A row \in Rows(fields) :
                Find(fields, row, cond1) = "match"
                    <=> Field(fields, row, FeatureOf(leafA).name) \in {Absent, Null}
    /\ (step = "pair" /\ IsNullLeaf(leafA) /\ IsNullLeaf(leafB)
          /\ FeatureOf(leafA) # FeatureOf(leafB)) => cond1 # cond2

\* C8: the filters compiled from not(allof(A, B)) and from
\* anyof(not(A), not(B)) do the same with every row: both match it, both do
\* not, or both are rejected; and if the compiler raises on one of the two
\* queries it raises on the other.
C8_DeMorgan ==
    step = "both" =>
        IF Raised(cond1) \/ Raised(cond2) THEN cond1 = cond2
        ELSE \A row \in Rows(fields) :
                 Find(fields, row, cond1) = Find(fields, row, cond2)

\* C8 witness: A and B are leaves on two features, both queries were compiled,
\* and their filters match some rows and not others.
C8_Witness ==
    /\ step = "both"
    /\ ~Raised(cond1) /\ ~Raised(cond2)
    /\ sanitizeFilter(leafA).f.operation = Str(S_gt)
    /\ HasFeature(leafA) /\ HasFeature(leafB)
    /\ FeatureOf(leafA).name = N_age
    /\ FeatureOf(leafB).name = N_note
    /\ sanitizeFilter(leafB).f.operation = Str(S_cni)
    /\ \E row \in Rows(fields) : Find(fields, row, cond1) = "match"
    /\ \E row \in Rows(fields) : Find(fields, row, cond2) = "nomatch"

----------------------------------------------------------------------------
(* Further claims about the update queue and the worker. *)

\* The permits released so far: one by each notice and by each push served.
Released == notices + Cardinality({r \in 1..MaxPushes : reqs[r].at = "done"})

\* The wake-ups after which the worker sent nothing.
SpuriousWakeUps ==
    Released - updateSem - Len(delivered)
        - (IF pc \in {"awake", "sending", "retrywait"} THEN 1 ELSE 0)

\* C13, step: the worker, resuming after acquire(), starts a first POST
\* exactly when the flag is set or the queue is not empty, with the flag
\* false from then on and an empty body if the queue was empty; otherwise it
\* waits again and leaves queue, flag and requests as they were.
C13_WakeStep ==
    (pc = "awake" /\ pc' # "awake") =>
        IF requiredUpdate \/ Len(updateQueue) > 0
        THEN /\ pc' = "sending"
             /\ ~requiredUpdate'
             /\ Len(tried') = 1
             /\ tried'[1].status = "pending"
             /\ inflight' = tried'[1].body
             /\ updateQueue = <<>> => inflight' = <<>>
        ELSE /\ pc' = "waiting"
             /\ UNCHANGED <<updateQueue, requiredUpdate, instancesToPush,
                            inflight, tried, delivered>>

\* A first POST is under way only with the flag cleared at its start: the
\* flag is true during it only if a notice came after.
C13_Sends == (pc = "sending" /\ requiredUpdate) => updateSem > 0

\* C13: a wake-up leads to a delivery attempt exactly when the flag is set or
\* the queue is not empty at the wake-up; with neither nothing is sent and
\* nothing changes; with the flag alone an empty batch is sent; the flag is
\* false when the first attempt starts.
C13_WakeUp == [](C13_Sends) /\ [][C13_WakeStep]_vars

\* C13 witness: an empty batch was sent, one wake-up sent nothing, and the
\* worker waits again.
C13_Witness ==
    /\ pc = "waiting"
    /\ SpuriousWakeUps > 0
    /\ \E i \in 1..Len(delivered) : delivered[i] = <<>>

\* The requests whose insert was rejected.
FailedPushes == {r \in 1..MaxPushes : reqs[r].at = "failed"}

\* C14, step: a push whose insert is rejected ends as failed and changes
\* neither queue nor flag nor permits; a failed push stays failed (it issues
\* no notice); the queue grows only when an insert has succeeded.
C14_Step ==
    /\ \A r \in 1..MaxPushes :
          /\ (reqs[r].at = "insert" /\ reqs'[r].at = "failed") =>
                UNCHANGED <<updateQueue, requiredUpdate, updateSem, appended>>
          /\ reqs[r].at = "failed" => reqs'[r].at = "failed"
    /\ appended' # appended =>
          \E r \in 1..MaxPushes :
              /\ reqs[r].at = "insert" /\ reqs'[r].at = "notice"
              /\ appended' = appended \o Instances(r, reqs[r].n)
              /\ updateQueue' = updateQueue \o Instances(r, reqs[r].n)

\* No instance of a failed push is queued, posted or delivered.
C14_NothingUnstored ==
    /\ \A i \in 1..Len(appended) : appended[i][1] \notin FailedPushes
    /\ \A i \in 1..Len(updateQueue) : updateQueue[i][1] \notin FailedPushes
    /\ \A i \in 1..Len(inflight) : inflight[i][1] \notin FailedPushes
    /\ \A b \in 1..Len(delivered) :
          \A i \in 1..Len(delivered[b]) : delivered[b][i][1] \notin FailedPushes

\* C14: pushInstances queues instances only after the insert has succeeded; a
\* rejected insert fails the request and leaves queue, flag and permits as
\* they were, so no instance that was not stored is delivered.
C14_StoreBeforeEnqueue == [](C14_NothingUnstored) /\ [][C14_Step]_vars

\* C14 witness: one push failed at the insert, and instances of another push
\* were delivered.
C14_Witness ==
    /\ FailedPushes # {}
    /\ \E b \in 1..Len(delivered) : delivered[b] # <<>>

\* The flag is true and the worker is blocked in acquire().
FlagSetWhileBlocked == requiredUpdate /\ pc = "waiting"

\* C15, safety: with the flag true and the worker blocked a permit is left.
C15_PermitLeft == FlagSetWhileBlocked => updateSem >= 1

\* A delivery attempt has just started: the first POST of a batch.
AttemptStarts == pc = "sending" /\ Len(tried) = 1 /\ ~requiredUpdate

\* C15: whenever the flag is true and the worker is blocked waiting, the
\* semaphore holds a permit; and every notice (which sets the flag) is
\* followed by the start of a delivery attempt (which alone clears it).
C15_NoNoticeLost == [](C15_PermitLeft) /\ (requiredUpdate ~> AttemptStarts)

\* C15 witness: a notice came while the worker was busy with a batch; the
\* batch is delivered, the flag is true, the worker is blocked and a permit
\* is left.
C15_Witness ==
    /\ FlagSetWhileBlocked
    /\ notices >= 1
    /\ Len(delivered) >= 1
    /\ updateSem >= 1

----------------------------------------------------------------------------
(* Claims about the sanitizer of pushed instances. *)

\* The instance has one value per feature, and they are all null.
AllNull(instance) ==
    /\ Len(instance.items) = Len(fields)
    /\ \A f \in 1..Len(fields) : instance.items[f] = Null

\* C11: sanitizeInstances never raises; for an array it returns one instance
\* per element, each with one value per feature, in the order of the
\* features; an element that is not an object (null, a number, a string, a
\* boolean) yields the instance whose values are all null.
C11_InstancesTotal ==
    step = "instances" =>
        /\ sanitized.k = "array"
        /\ LET body == BodyOrEmpty(raw)
           IN  body.k = "array" =>
                  /\ Len(sanitized.items) = Len(body.items)
                  /\ \A n \in 1..Len(body.items) :
                        /\ sanitized.items[n].k = "array"
                        /\ Len(sanitized.items[n].items) = Len(fields)
                        /\ \A f \in 1..Len(fields) :
                              sanitized.items[n].items[f] =
                                  turnInto(Member(body.items[n], fields[f].name),
                                           fields[f].type)
                        /\ body.items[n].k \in {"null", "number", "string", "boolean"}
                              => AllNull(sanitized.items[n])

----------------------------------------------------------------------------
(* The nominal-value lookup: DataSource.getNominalValues. The collection is  *)
(* given by the number of its rows that are equal to each of a few           *)
(* documents; a document holds the nominal field color, or lacks it.         *)

NOMINAL_VALUES_LIMIT == 128

\* The documents of the collections under study.
StoredDocs ==
    <<Row(<<[key |-> N_color, val |-> Str(S_abc)]>>),
      Row(<<>>),
      Row(<<[key |-> N_color, val |-> Str(<<>>)]>>),
      Row(<<[key |-> N_color, val |-> Null]>>),
      Row(<<[key |-> N_color, val |-> Str(S_aXb)]>>)>>

\* How many rows are equal to one document: none, one, two, or more than the
\* limit of the lookup.
Counts == {0, 1, 2, NOMINAL_VALUES_LIMIT + 1}

\* The document satisfies a filter that the store accepts.
RECURSIVE DocMatches(_, _)
DocMatches(doc, cond) ==
    \A i \in 1..Len(cond.e) :
        LET key == cond.e[i].key
            val == cond.e[i].val
        IN  CASE key = K_and ->
                   \A j \in 1..Len(val.items) : DocMatches(doc, val.items[j])
              [] key = K_or ->
                   \E j \in 1..Len(val.items) : DocMatches(doc, val.items[j])
              [] OTHER -> Satisfies(Member(doc, key), val)

\* The place of a value in an ascending sort: an absent field and null come
\* first, then numbers, then strings, then booleans, then dates.
SortRank(v) ==
    CASE v.k \in {"undefined", "null"} -> 1
      [] v.k = "number" -> 2
      [] v.k = "string" -> 3
      [] v.k = "boolean" -> 4
      [] v.k = "date" -> 5

\* cursor.sort({ [fieldName]: 1 }): the i-th document comes before the j-th;
\* documents with equal keys come in the order of StoredDocs.
SortsBefore(fieldName, i, j) ==
    LET v == Member(StoredDocs[i], fieldName)
        w == Member(StoredDocs[j], fieldName)
    IN  \/ SortRank(v) < SortRank(w)
        \/ Less(v, w)
        \/ SortRank(v) = SortRank(w) /\ ~Less(w, v) /\ i < j

\* The number of found rows that the sort puts before the rows equal to the
\* i-th document, counted over the documents from the j-th on.
RECURSIVE RowsBefore(_, _, _, _)
RowsBefore(found, fieldName, i, j) ==
    IF j > Len(StoredDocs) THEN 0
    ELSE (IF SortsBefore(fieldName, j, i) THEN found[j] ELSE 0)
         + RowsBefore(found, fieldName, i, j + 1)

\* The number of found rows, counted over the documents from the j-th on.
RECURSIVE FoundFrom(_, _)
FoundFrom(found, j) ==
    IF j > Len(StoredDocs) THEN 0 ELSE found[j] + FoundFrom(found, j + 1)

\* cursor.project({ [fieldName]: 1 })
Project(doc, fieldName) == Row(SelectSeq(doc.e, LAMBDA en : en.key = fieldName))

\* db.find(cond1).sort(mongoSort).project(mongoProjection).limit(128).toArray()
FindSorted(coll, cond, fieldName) ==
    LET found == [i \in 1..Len(StoredDocs) |->
                     IF DocMatches(StoredDocs[i], cond) THEN coll[i] ELSE 0]
        total == FoundFrom(found, 1)
        kept == IF total < NOMINAL_VALUES_LIMIT THEN total ELSE NOMINAL_VALUES_LIMIT
    IN  [p \in 1..kept |->
            Project(StoredDocs[CHOOSE i \in 1..Len(StoredDocs) :
                        /\ RowsBefore(found, fieldName, i, 1) < p
                        /\ p <= RowsBefore(found, fieldName, i, 1) + found[i]],
                    fieldName)]

\* The rejection of a filter by the store.
MongoError == [k |-> "throw", error |-> "MongoServerError"]

\* DataSource.getNominalValues(filter, query, feature), for a query that is a
\* string or absent (it is lower-cased and not used).
getNominalValues(features, coll, query, index) ==
    IF index \notin 0..(Len(features) - 1) THEN Arr(<<>>)
    ELSE IF features[index + 1].type # "nominal" THEN Arr(<<>>)
    ELSE LET cond == toMongoFilter(features, query)
             fieldName == features[index + 1].name
         IN  IF cond.k = "throw" THEN cond
             ELSE IF ~Accepts(cond) THEN MongoError
             ELSE LET docs == FindSorted(coll, cond, fieldName)
                      kept == SelectSeq(docs,
                                  LAMBDA doc : ~Falsy(Member(doc, fieldName)))
                  IN  Arr([n \in 1..Len(kept) |->
                              Str(ToStr(Member(kept[n], fieldName)))])

\* The filters of the lookups under study, as the request gave them.
LookupFilters ==
    {Null, Leaf(Str(S_eq), 0, Str(S_abc)), Leaf(Str(S_sw), 0, Str(S_aXb)),
     Node(Str(S_not), <<Leaf(Str(S_eq), 0, Str(S_abc))>>),
     Leaf(Str(S_null), 0, Null), Leaf(Str(S_cn), 2, Str(S_y2020))}

LookupInit ==
    /\ WorkerInit
    /\ raw \in LookupFilters
    /\ startDepth = 0
    /\ sanitized = [k |-> "none"]
    /\ resanitized = [k |-> "none"]
    /\ step = "input"
    /\ fields \in Schemas
    /\ leafA = [k |-> "none"]
    /\ leafB = [k |-> "none"]
    /\ cond1 = [k |-> "none"]
    /\ cond2 = [k |-> "none"]
    /\ collection \in [1..Len(StoredDocs) -> Counts]
    /\ featureArg \in {-1, 0, 1}
    /\ nominalValues = [k |-> "none"]

\* getNominalValues(sanitizeFilter(raw), "", featureArg)
GetNominalValues ==
    /\ step = "input"
    /\ nominalValues' =
          getNominalValues(fields, collection, sanitizeFilter(raw), featureArg)
    /\ step' = "values"
    /\ UNCHANGED <<workerVars, raw, startDepth, sanitized, resanitized,
                   compileVars, collection, featureArg>>

LookupNext == GetNominalValues

LookupSpec == LookupInit /\ [][LookupNext]_vars

----------------------------------------------------------------------------
(* Claims about the nominal-value lookup. *)

\* C12: the list that getNominalValues returns for a nominal feature holds at
\* most 128 values, each a string that is not empty, in ascending order, and
\* no value twice.
C12_NominalValues ==
    (step = "values" /\ nominalValues.k = "array") =>
        LET list == nominalValues.items
        IN  /\ Len(list) <= 128
            /\ \A n \in 1..Len(list) : list[n].k = "string" /\ list[n].s # <<>>
            /\ \A n \in 1..(Len(list) - 1) : ~StrLess(list[n + 1].s, list[n].s)
            /\ \A n, o \in 1..Len(list) : n # o => list[n] # list[o]

====
